---- MODULE Spec2Model ----
(***************************************************************************)
(* Model of the vortex-math trading engine: VortexMath (the digital-root   *)
(* predicates and the sequence generator) and VortexStrategy (the signal   *)
(* policy, the backtest loop, the position bookkeeping and the metrics).   *)
(*                                                                         *)
(* JavaScript numbers are modelled as exact rationals [n, d] in lowest     *)
(* terms with d > 0, extended with the IEEE specials NaN = 0/0,            *)
(* +Infinity = 1/0 and -Infinity = -1/0.  Rounding of binary floating      *)
(* point is not modelled.                                                  *)
(***************************************************************************)
EXTENDS Integers, Sequences, FiniteSets, TLC

\* ------------------------------------------------------------------------
\* Bounds of the model
\* ------------------------------------------------------------------------
MaxLen == 3
MaxPrice == 2
MaxNumber == 300
\* the largest base, multiplier and length handed to generateVortexSequence
MaxBase == 9
MaxMultiplier == 3
MaxSeqLength == 9
\* the longest raw price list and the largest timestamp given to processRawData
MaxRecords == 2
MaxTimestamp == 3
\* the most clicks on the run button in one behaviour
MaxClicks == 4

\* ------------------------------------------------------------------------
\* JavaScript number arithmetic
\* ------------------------------------------------------------------------
Abs(x) == IF x < 0 THEN -x ELSE x

Sign(x) == IF x > 0 THEN 1 ELSE IF x < 0 THEN -1 ELSE 0

RECURSIVE GCD(_, _)
GCD(a, b) == IF b = 0 THEN a ELSE GCD(b, a % b)

Norm(n, d) ==
    IF d = 0 THEN [n |-> Sign(n), d |-> 0]
    ELSE LET g == GCD(Abs(n), Abs(d))
             s == Sign(d)
         IN  [n |-> (s * n) \div g, d |-> (s * d) \div g]

Num(k) == [n |-> k, d |-> 1]

NaN == [n |-> 0, d |-> 0]

IsNaN(x) == x.d = 0 /\ x.n = 0

\* x * y
Mul(x, y) == Norm(x.n * y.n, IF x.d = 0 \/ y.d = 0 THEN 0 ELSE x.d * y.d)

\* x / y
Div(x, y) ==
    IF IsNaN(x) \/ IsNaN(y) THEN NaN
    ELSE IF y.d = 0 THEN (IF x.d = 0 THEN NaN ELSE Num(0))
    ELSE IF x.d = 0 THEN (IF y.n < 0 THEN Norm(-x.n, 0) ELSE x)
    ELSE Norm(x.n * y.d, x.d * y.n)

\* x + y
Add(x, y) ==
    IF IsNaN(x) \/ IsNaN(y) THEN NaN
    ELSE IF x.d = 0 /\ y.d = 0 THEN (IF x.n = y.n THEN x ELSE NaN)
    ELSE IF x.d = 0 THEN x
    ELSE IF y.d = 0 THEN y
    ELSE Norm(x.n * y.d + y.n * x.d, x.d * y.d)

Neg(x) == [n |-> -x.n, d |-> x.d]

\* x - y
Sub(x, y) == Add(x, Neg(y))

\* x < y (false as soon as an operand is NaN)
Lt(x, y) ==
    IF IsNaN(x) \/ IsNaN(y) THEN FALSE
    ELSE IF x.d = 0 /\ y.d = 0 THEN x.n < y.n
    ELSE IF x.d = 0 THEN x.n < 0
    ELSE IF y.d = 0 THEN y.n > 0
    ELSE x.n * y.d < y.n * x.d

\* x > y
Gt(x, y) == Lt(y, x)

\* x <= y on numbers that are not NaN
Le(x, y) == ~IsNaN(x) /\ ~IsNaN(y) /\ ~Lt(y, x)

\* Math.max(x, y)
Max(x, y) == IF IsNaN(x) \/ IsNaN(y) THEN NaN ELSE IF Lt(x, y) THEN y ELSE x

\* the truthiness of a number: 0 and NaN are falsy
Truthy(x) == ~IsNaN(x) /\ x.n # 0

\* ------------------------------------------------------------------------
\* VortexMath
\* ------------------------------------------------------------------------
\* digitalRoot without the adjustment of a remainder 0 to 9
digitalRootPlainMod(n) == IF n = 0 THEN 0 ELSE Abs(n) % 9

digitalRoot(n) ==
    IF n = 0 THEN 0
    ELSE LET mod == Abs(n) % 9
         IN  IF mod = 0 THEN 9 ELSE mod

\* the inner while loop of digitalRootIterative: the digits of n added to sum
RECURSIVE DigitSumLoop(_, _)
DigitSumLoop(n, sum) ==
    IF n > 0 THEN DigitSumLoop(n \div 10, sum + (n % 10)) ELSE sum

\* the outer while loop of digitalRootIterative
RECURSIVE DigitRootLoop(_)
DigitRootLoop(n) == IF n >= 10 THEN DigitRootLoop(DigitSumLoop(n, 0)) ELSE n

digitalRootIterative(n) ==
    IF n = 0 THEN 0
    ELSE LET r == DigitRootLoop(Abs(n))
         IN  IF r = 0 THEN 9 ELSE r

isTeslaNumber(n) == n \in {3, 6, 9}

\* isInDoublingSequence with the list holding 3 as well
isInDoublingSequenceWithThree(root) == root \in {1, 2, 3, 4, 8, 7, 5}

isInDoublingSequence(root) == root \in {1, 2, 4, 8, 7, 5}

\* VortexLoop with the cycle test made before the push
RECURSIVE VortexLoopOmitsClosing(_, _, _, _, _, _, _)
VortexLoopOmitsClosing(sequence, current, i, start, multiplier, base, length) ==
    IF ~(i < length) THEN sequence
    ELSE LET m == (current * multiplier) % base
             c == IF m = 0 THEN base ELSE m
         IN  IF c = start /\ i > 1 THEN sequence
             ELSE VortexLoopOmitsClosing(Append(sequence, c), c, i + 1, start,
                                         multiplier, base, length)

\* the for loop of generateVortexSequence, from iteration i on
RECURSIVE VortexLoop(_, _, _, _, _, _, _)
VortexLoop(sequence, current, i, start, multiplier, base, length) ==
    IF ~(i < length) THEN sequence
    ELSE LET m == (current * multiplier) % base
             c == IF m = 0 THEN base ELSE m
             pushed == Append(sequence, c)
         IN  IF c = start /\ i > 1 THEN pushed
             ELSE VortexLoop(pushed, c, i + 1, start, multiplier, base, length)

generateVortexSequence(start, multiplier, base, length) ==
    VortexLoop(<<start>>, start, 1, start, multiplier, base, length)

doublingSequence(length) == generateVortexSequence(1, 2, 9, length)

\* ------------------------------------------------------------------------
\* VortexStrategy.generateSignal
\* ------------------------------------------------------------------------
Null == [isNull |-> TRUE]

\* reasoning is the list of the pushed phrases (the text and the digital
\* root interpolated into it, 0 when the phrase has none); join('; ') of an
\* empty list is the empty string, which || replaces by the default phrase
JoinReasoning(reasoning) ==
    IF reasoning = <<>> THEN <<<<"No specific vortex pattern detected", 0>>>>
    ELSE reasoning

\* the phrase pushed by the pattern analysis at the end of generateSignal
ProgressionReasoning(root, previousData) ==
    IF previousData = Null THEN <<>>
    ELSE LET sequence == generateVortexSequence(previousData.digitalRoot, 2, 9, 3)
         IN  IF Len(sequence) > 1 /\ sequence[2] = root
             THEN <<<<"Following vortex sequence progression", 0>>>>
             ELSE <<>>

\* TeslaSignal with the polarities of 3 and 6 exchanged
TeslaSignalSwapped(root) ==
    IF root = 9
    THEN [action |-> "HOLD",
          reasoning |-> <<<<"Tesla balance number (9) - maintain position", 0>>>>]
    ELSE IF root = 3
    THEN [action |-> "SELL",
          reasoning |-> <<<<"Tesla negative polarity (6) - downward energy flow", 0>>>>]
    ELSE IF root = 6
    THEN [action |-> "BUY",
          reasoning |-> <<<<"Tesla positive polarity (3) - upward energy flow", 0>>>>]
    ELSE [action |-> "HOLD", reasoning |-> <<>>]

\* the branch for the Tesla numbers 3, 6, 9
TeslaSignal(root) ==
    IF root = 9
    THEN [action |-> "HOLD",
          reasoning |-> <<<<"Tesla balance number (9) - maintain position", 0>>>>]
    ELSE IF root = 3
    THEN [action |-> "BUY",
          reasoning |-> <<<<"Tesla positive polarity (3) - upward energy flow", 0>>>>]
    ELSE IF root = 6
    THEN [action |-> "SELL",
          reasoning |-> <<<<"Tesla negative polarity (6) - downward energy flow", 0>>>>]
    ELSE [action |-> "HOLD", reasoning |-> <<>>]

\* BasicSignal with the buy and the sell target exchanged
BasicSignalSwapped(cfg, root) ==
    IF root = cfg.sellSignal
    THEN [action |-> "BUY",
          reasoning |-> <<<<"Vortex buy signal - cycle start", cfg.buySignal>>>>]
    ELSE IF root = cfg.buySignal
    THEN [action |-> "SELL",
          reasoning |-> <<<<"Vortex sell signal - cycle peak", cfg.sellSignal>>>>]
    ELSE IF root = cfg.holdSignal
    THEN [action |-> "HOLD",
          reasoning |-> <<<<"Vortex hold signal - equilibrium", cfg.holdSignal>>>>]
    ELSE [action |-> "HOLD", reasoning |-> <<>>]

\* BasicSignal with the sell target tested before the buy target
BasicSignalSellFirst(cfg, root) ==
    IF root = cfg.sellSignal
    THEN [action |-> "SELL",
          reasoning |-> <<<<"Vortex sell signal - cycle peak", cfg.sellSignal>>>>]
    ELSE IF root = cfg.buySignal
    THEN [action |-> "BUY",
          reasoning |-> <<<<"Vortex buy signal - cycle start", cfg.buySignal>>>>]
    ELSE IF root = cfg.holdSignal
    THEN [action |-> "HOLD",
          reasoning |-> <<<<"Vortex hold signal - equilibrium", cfg.holdSignal>>>>]
    ELSE [action |-> "HOLD", reasoning |-> <<>>]

\* the basic vortex strategy signals
BasicSignal(cfg, root) ==
    IF root = cfg.buySignal
    THEN [action |-> "BUY",
          reasoning |-> <<<<"Vortex buy signal - cycle start", cfg.buySignal>>>>]
    ELSE IF root = cfg.sellSignal
    THEN [action |-> "SELL",
          reasoning |-> <<<<"Vortex sell signal - cycle peak", cfg.sellSignal>>>>]
    ELSE IF root = cfg.holdSignal
    THEN [action |-> "HOLD",
          reasoning |-> <<<<"Vortex hold signal - equilibrium", cfg.holdSignal>>>>]
    ELSE [action |-> "HOLD", reasoning |-> <<>>]

\* generateSignal with the Tesla branch tested before the sequence filter
generateSignalTeslaFirst(cfg, currentData, previousData) ==
    LET root == currentData.digitalRoot
    IN  IF cfg.useTeslaFilter /\ isTeslaNumber(root)
        THEN [action |-> TeslaSignal(root).action,
              reasoning |-> JoinReasoning(
                  TeslaSignal(root).reasoning
                      \o ProgressionReasoning(root, previousData))]
        ELSE IF cfg.useSequenceFilter /\ ~isInDoublingSequence(root)
        THEN [action |-> "HOLD",
              reasoning |-> JoinReasoning(
                  <<<<"Digital root not in doubling sequence - no action", root>>>>)]
        ELSE [action |-> BasicSignal(cfg, root).action,
              reasoning |-> JoinReasoning(
                  BasicSignal(cfg, root).reasoning
                      \o ProgressionReasoning(root, previousData))]

\* generateSignal that answers BUY whenever the record follows the previous
\* one in the doubling sequence
generateSignalWithMomentum(cfg, currentData, previousData) ==
    LET root == currentData.digitalRoot
    IN  IF cfg.useSequenceFilter /\ ~isInDoublingSequence(root)
        THEN [action |-> "HOLD",
              reasoning |-> JoinReasoning(
                  <<<<"Digital root not in doubling sequence - no action", root>>>>)]
        ELSE LET decided == IF cfg.useTeslaFilter /\ isTeslaNumber(root)
                            THEN TeslaSignal(root)
                            ELSE BasicSignal(cfg, root)
                 following == ProgressionReasoning(root, previousData)
             IN  [action |-> IF following # <<>> THEN "BUY" ELSE decided.action,
                  reasoning |-> JoinReasoning(decided.reasoning \o following)]

generateSignal(cfg, currentData, previousData) ==
    LET root == currentData.digitalRoot
    IN  IF cfg.useSequenceFilter /\ ~isInDoublingSequence(root)
        THEN [action |-> "HOLD",
              reasoning |-> JoinReasoning(
                  <<<<"Digital root not in doubling sequence - no action", root>>>>)]
        ELSE LET decided == IF cfg.useTeslaFilter /\ isTeslaNumber(root)
                            THEN TeslaSignal(root)
                            ELSE BasicSignal(cfg, root)
             IN  [action |-> decided.action,
                  reasoning |-> JoinReasoning(
                      decided.reasoning \o ProgressionReasoning(root, previousData))]

\* ------------------------------------------------------------------------
\* VortexStrategy: positions and metrics
\* ------------------------------------------------------------------------
\* the performance object set by the constructor and by reset()
InitialPerformance ==
    [totalTrades |-> 0, winningTrades |-> 0, losingTrades |-> 0,
     totalReturn |-> Num(0), maxDrawdown |-> Num(0), sharpeRatio |-> Num(0)]

openPosition(cfg, action, dataPoint, cap) ==
    [action |-> action,
     date |-> dataPoint.date,
     price |-> dataPoint.price,
     digitalRoot |-> dataPoint.digitalRoot,
     capital |-> cap,
     size |-> cfg.maxPositionSize]

\* dates are day numbers, so the difference is already in days
calculateHoldingPeriod(entryDate, exitDate) == exitDate - entryDate

\* closePosition whose exitCapital moves only the allocated fraction of the
\* capital with the price
closePositionAllocated(pos, dataPoint) ==
    LET diff == Sub(Num(dataPoint.price), Num(pos.price))
    IN  [entryDate |-> pos.date,
         exitDate |-> dataPoint.date,
         entryPrice |-> pos.price,
         exitPrice |-> dataPoint.price,
         entryDigitalRoot |-> pos.digitalRoot,
         exitDigitalRoot |-> dataPoint.digitalRoot,
         profit |-> Mul(diff, pos.size),
         profitPercent |-> Mul(Div(diff, Num(pos.price)), Num(100)),
         exitCapital |->
             Add(pos.capital,
                 Mul(Mul(pos.capital, pos.size), Div(diff, Num(pos.price)))),
         holdingPeriod |-> calculateHoldingPeriod(pos.date, dataPoint.date)]

closePosition(pos, dataPoint) ==
    LET diff == Sub(Num(dataPoint.price), Num(pos.price))
    IN  [entryDate |-> pos.date,
         exitDate |-> dataPoint.date,
         entryPrice |-> pos.price,
         exitPrice |-> dataPoint.price,
         entryDigitalRoot |-> pos.digitalRoot,
         exitDigitalRoot |-> dataPoint.digitalRoot,
         profit |-> Mul(diff, pos.size),
         profitPercent |-> Mul(Div(diff, Num(pos.price)), Num(100)),
         exitCapital |-> Mul(pos.capital, Div(Num(dataPoint.price), Num(pos.price))),
         holdingPeriod |-> calculateHoldingPeriod(pos.date, dataPoint.date)]

\* list.reduce((sum, x) => sum + x, 0)
RECURSIVE SumSeq(_)
SumSeq(list) ==
    IF list = <<>> THEN Num(0)
    ELSE Add(SumSeq(SubSeq(list, 1, Len(list) - 1)), list[Len(list)])

\* Math.max(...list) of a non-empty list
RECURSIVE MaxSeq(_)
MaxSeq(list) ==
    IF Len(list) = 1 THEN list[1]
    ELSE Max(MaxSeq(SubSeq(list, 1, Len(list) - 1)), list[Len(list)])

\* dailyPortfolio.map(...).slice(1) of calculatePerformanceMetrics
DailyReturns(dailyPortfolio) ==
    [k \in 1..(Len(dailyPortfolio) - 1) |->
        Div(Sub(dailyPortfolio[k + 1].portfolioValue, dailyPortfolio[k].portfolioValue),
            dailyPortfolio[k].portfolioValue)]

\* sharpeRatio stands for the signed square of the JavaScript value, that is
\* sign(r) * r * r for r = avgReturn / returnStdDev * sqrt(252): the map is
\* strictly increasing, so equalities and comparisons are those of r itself
SharpeOf(avgReturn, variance) ==
    IF Gt(variance, Num(0))
    THEN Mul(Num(Sign(avgReturn.n)),
             Div(Mul(Mul(avgReturn, avgReturn), Num(252)), variance))
    ELSE Num(0)

\* MeanOrZero without the test of the length
MeanUnguarded(list) == Div(SumSeq(list), Num(Len(list)))

\* list.length > 0 ? list.reduce((sum, x) => sum + x, 0) / list.length : 0
MeanOrZero(list) ==
    IF Len(list) > 0 THEN Div(SumSeq(list), Num(Len(list))) ELSE Num(0)

\* the mean of the squared deviations from avgReturn, the square of returnStdDev
VarianceOf(dailyReturns, avgReturn) ==
    MeanOrZero([k \in 1..Len(dailyReturns) |->
                   Mul(Sub(dailyReturns[k], avgReturn), Sub(dailyReturns[k], avgReturn))])

\* avgReturn, returnStdDev and sharpeRatio
SharpeOfReturns(dailyReturns, avgReturn) ==
    SharpeOf(avgReturn, VarianceOf(dailyReturns, avgReturn))

\* avgWin, avgLoss and profitFactor
ProfitFactor(avgWin, avgLoss) ==
    IF Gt(avgLoss, Num(0)) THEN Div(avgWin, avgLoss)
    ELSE IF Gt(avgWin, Num(0)) THEN Norm(1, 0) ELSE Num(0)

\* the returned object, from the filtered lists and the averages
MetricsObject(trades, dailyPortfolio, totalReturn, dailyReturns, wins, losses, avgWin, avgLoss) ==
    [totalReturn |-> totalReturn,
     totalTrades |-> Len(trades),
     winningTrades |-> Len(wins),
     losingTrades |-> Len(losses),
     winRate |-> IF Len(trades) > 0
                 THEN Mul(Div(Num(Len(wins)), Num(Len(trades))), Num(100))
                 ELSE Num(0),
     maxDrawdown |->
         IF Len(dailyPortfolio) > 0
         THEN MaxSeq([k \in 1..Len(dailyPortfolio) |->
                         IF Truthy(dailyPortfolio[k].drawdown)
                         THEN dailyPortfolio[k].drawdown ELSE Num(0)])
         ELSE Num(0),
     sharpeRatio |-> SharpeOfReturns(dailyReturns, MeanOrZero(dailyReturns)),
     avgWin |-> avgWin,
     avgLoss |-> avgLoss,
     profitFactor |-> ProfitFactor(avgWin, avgLoss),
     avgHoldingPeriod |->
         MeanOrZero([k \in 1..Len(trades) |-> Num(trades[k].holdingPeriod)])]

\* calculatePerformanceMetrics with a zero-profit trade counted as a win
calculatePerformanceMetricsZeroWins(trades, res, initCap, finalCapital) ==
    LET wins == SelectSeq(trades, LAMBDA t : ~Lt(t.profit, Num(0)))
        losses == SelectSeq(trades, LAMBDA t : Lt(t.profit, Num(0)))
    IN  MetricsObject(
            trades,
            res.dailyPortfolio,
            Mul(Div(Sub(finalCapital, initCap), initCap), Num(100)),
            DailyReturns(res.dailyPortfolio),
            wins,
            losses,
            MeanOrZero([k \in 1..Len(wins) |-> wins[k].profitPercent]),
            MeanOrZero([k \in 1..Len(losses) |->
                           Norm(Abs(losses[k].profitPercent.n), losses[k].profitPercent.d)]))

\* trades is this.tradeHistory
calculatePerformanceMetrics(trades, res, initCap, finalCapital) ==
    LET wins == SelectSeq(trades, LAMBDA t : Gt(t.profit, Num(0)))
        losses == SelectSeq(trades, LAMBDA t : Lt(t.profit, Num(0)))
    IN  MetricsObject(
            trades,
            res.dailyPortfolio,
            Mul(Div(Sub(finalCapital, initCap), initCap), Num(100)),
            DailyReturns(res.dailyPortfolio),
            wins,
            losses,
            MeanOrZero([k \in 1..Len(wins) |-> wins[k].profitPercent]),
            MeanOrZero([k \in 1..Len(losses) |->
                           Norm(Abs(losses[k].profitPercent.n), losses[k].profitPercent.d)]))

\* ------------------------------------------------------------------------
\* State
\* ------------------------------------------------------------------------
VARIABLES
    config,          \* this.config
    positions,       \* this.positions
    tradeHistory,    \* this.tradeHistory
    performance,     \* this.performance
    priceData,       \* the series argument of backtest, as far as it is known
    initialCapital,  \* argument of the running (or last) backtest call
    pc,              \* "idle", "loop" (inside backtest) or "done" (returned)
    i,               \* loop index of backtest, 0-based
    capital,         \* local of backtest
    position,        \* local of backtest, Null when no position is open
    maxCapital,      \* local of backtest
    results,         \* local of backtest: trades, dailyPortfolio, signals
    returned,        \* the object returned by the last completed call
    previous,        \* the object returned by the call before it
    signalOut,       \* the last direct call of generateSignal and its result
    callOut,         \* the last call of a static function and its result
    appState,        \* appState of the page, as far as runBacktest uses it
    button,          \* the element with id 'run-backtest'
    processedData,   \* TRUE when the page holds loaded market data, FALSE for null
    backtestResults, \* 0 for null, else the invocation that assigned it
    runs             \* the position of every runBacktest invocation so far

\* the state of the page around the run button
uiVars == <<appState, button, processedData, backtestResults, runs>>

vars == <<config, positions, tradeHistory, performance, priceData,
          initialCapital, pc, i, capital, position, maxCapital, results,
          returned, previous, signalOut, callOut, uiVars>>

\* ------------------------------------------------------------------------
\* Inputs
\* ------------------------------------------------------------------------
Roots == 0..9

\* digital roots of the records of a backtested series
RecordRoots == {1, 3, 5}

Prices == 1..MaxPrice

\* one daily record; the date is the day number, set when the series is built
Records == [price : Prices, digitalRoot : RecordRoots]

SeriesOfLen(n) == [1..n -> Records]

\* every series of at most MaxLen records, dated in increasing order
AllSeries ==
    { [k \in 1..Len(s) |-> [date |-> k, price |-> s[k].price,
                            digitalRoot |-> s[k].digitalRoot]] :
        s \in UNION { SeriesOfLen(n) : n \in 0..MaxLen } }

\* the series replayed when backtest is called twice
ReplaySeries == { s \in AllSeries : \A k \in 1..Len(s) : s[k].digitalRoot \in {1, 5} }

InitialCapitals == {Num(1), Num(2)}

\* the constructor's defaults, overridden by the fields of the argument
MakeConfig(buy, sell, hold, tesla, sequence, size) ==
    [buySignal |-> buy, sellSignal |-> sell, holdSignal |-> hold,
     useTeslaFilter |-> tesla, useSequenceFilter |-> sequence,
     minimumHoldPeriod |-> 1, maxPositionSize |-> size,
     stopLossPercent |-> 10, takeProfitPercent |-> 20]

\* targets and allocation fractions of the backtested strategies: the
\* defaults, the targets exchanged, and one target for both buy and sell
Strategies ==
    { [buy |-> 1, sell |-> 5, size |-> Num(1)],
      [buy |-> 5, sell |-> 1, size |-> Norm(1, 2)],
      [buy |-> 1, sell |-> 1, size |-> Norm(1, 2)] }

\* configurations of the backtested strategies
BacktestConfigs ==
    { MakeConfig(g.buy, g.sell, 9, t, q, g.size) :
        g \in Strategies, t \in BOOLEAN, q \in BOOLEAN }

\* configurations of the strategies that are backtested twice
TwiceConfigs == { cfg \in BacktestConfigs : cfg.useTeslaFilter = cfg.useSequenceFilter }

\* configurations on which generateSignal is called directly
SignalConfigs ==
    { MakeConfig(b, s, h, t, q, Num(1)) :
        b \in 1..9, s \in 1..9, h \in 1..9, t \in BOOLEAN, q \in BOOLEAN }

EmptyResults == [trades |-> <<>>, dailyPortfolio |-> <<>>, signals |-> <<>>]

\* the state after new VortexStrategy(cfg)
Constructed(cfg) ==
    /\ config = cfg
    /\ positions = <<>>
    /\ tradeHistory = <<>>
    /\ performance = InitialPerformance
    /\ priceData = <<>>
    /\ initialCapital = Num(0)
    /\ pc = "idle"
    /\ i = 0
    /\ capital = Num(0)
    /\ position = Null
    /\ maxCapital = Num(0)
    /\ results = EmptyResults
    /\ returned = Null
    /\ previous = Null
    /\ signalOut = Null
    /\ callOut = Null
    /\ appState = [isRunning |-> FALSE]
    /\ button = [textContent |-> "Run Backtest", disabled |-> FALSE]
    /\ processedData = FALSE
    /\ backtestResults = 0
    /\ runs = <<>>

Init == \E cfg \in BacktestConfigs : Constructed(cfg)

\* ------------------------------------------------------------------------
\* VortexStrategy.backtest
\* ------------------------------------------------------------------------
\* reset() leaving tradeHistory as it is
resetKeepsHistory ==
    [positions |-> <<>>, tradeHistory |-> tradeHistory, performance |-> InitialPerformance]

\* reset(): the instance fields after the call
reset == [positions |-> <<>>, tradeHistory |-> <<>>, performance |-> InitialPerformance]

\* entry of backtest(series, cap): reset() and the initialisation of the locals
Enter(series, cap) ==
    /\ positions' = reset.positions
    /\ tradeHistory' = reset.tradeHistory
    /\ performance' = reset.performance
    /\ priceData' = series
    /\ initialCapital' = cap
    /\ capital' = cap
    /\ position' = Null
    /\ maxCapital' = cap
    /\ results' = EmptyResults
    /\ i' = 0
    /\ pc' = "loop"

\* backtest(series, cap) on a fresh instance.  The loop reads the series one
\* record at a time and never looks ahead, so the series is disclosed as it
\* is read: priceData holds the records read so far, LoopStep draws the next
\* one and Finish is the case in which the series has no further record
Backtest ==
    /\ pc = "idle"
    /\ \E cap \in InitialCapitals : Enter(<<>>, cap)
    /\ UNCHANGED <<config, returned, previous, signalOut, callOut, uiVars>>

\* backtest(series, cap) on a fresh instance, the series given in full
BacktestSeries ==
    /\ pc = "idle"
    /\ \E series \in ReplaySeries, cap \in InitialCapitals : Enter(series, cap)
    /\ UNCHANGED <<config, returned, previous, signalOut, callOut, uiVars>>

\* a second call of backtest on the same instance, with the same arguments
BacktestAgain ==
    /\ pc = "done"
    /\ previous = Null
    /\ Enter(priceData, initialCapital)
    /\ previous' = returned
    /\ UNCHANGED <<config, returned, signalOut, callOut, uiVars>>

\* the ledger entry pushed when a position is opened
OpenEntry(dataPoint, signal, cap) ==
    [type |-> "OPEN", action |-> "BUY", date |-> dataPoint.date,
     price |-> dataPoint.price, digitalRoot |-> dataPoint.digitalRoot,
     reasoning |-> signal.reasoning, capital |-> cap]

\* CloseEntry that reports the closing record as the entry of the trade
CloseEntryOwnDate(dataPoint, reasoning, pos, trade, cap) ==
    [type |-> "CLOSE", action |-> "SELL", date |-> dataPoint.date,
     price |-> dataPoint.price, digitalRoot |-> dataPoint.digitalRoot,
     reasoning |-> reasoning, entryPrice |-> dataPoint.price,
     entryDate |-> dataPoint.date,
     profit |-> trade.profit, profitPercent |-> trade.profitPercent,
     capital |-> cap]

\* the ledger entry pushed when a position is closed
CloseEntry(dataPoint, reasoning, pos, trade, cap) ==
    [type |-> "CLOSE", action |-> "SELL", date |-> dataPoint.date,
     price |-> dataPoint.price, digitalRoot |-> dataPoint.digitalRoot,
     reasoning |-> reasoning, entryPrice |-> pos.price, entryDate |-> pos.date,
     profit |-> trade.profit, profitPercent |-> trade.profitPercent,
     capital |-> cap]

\* ((maxCapital - portfolioValue) / maxCapital) * 100
Drawdown(maxCap, portfolioValue) ==
    Mul(Div(Sub(maxCap, portfolioValue), maxCap), Num(100))

\* Opens without the test that no position is open
OpensWhileLong(signal, pos) == signal.action = "BUY"

\* Opens that also takes a SELL signal as an entry
OpensOnSell(signal, pos) == signal.action \in {"BUY", "SELL"} /\ pos = Null

\* signal.action === 'BUY' && !position
Opens(signal, pos) == signal.action = "BUY" /\ pos = Null

\* Closes that waits until the position is config.minimumHoldPeriod days old
ClosesAfterMinimumHold(signal, pos) ==
    /\ ~Opens(signal, pos)
    /\ signal.action = "SELL"
    /\ pos # Null
    /\ (i + 1) - pos.date >= config.minimumHoldPeriod

\* the else-if: signal.action === 'SELL' && position
Closes(signal, pos) == ~Opens(signal, pos) /\ signal.action = "SELL" /\ pos # Null

\* PortfolioValue without the mark-to-market of the open position
PortfolioValueCash(cap, pos, dataPoint) == cap

\* PortfolioValue that marks only the allocated fraction to the market
PortfolioValueAllocated(cap, pos, dataPoint) ==
    IF pos # Null
    THEN Add(cap, Mul(Mul(cap, pos.size),
                      Div(Sub(Num(dataPoint.price), Num(pos.price)), Num(pos.price))))
    ELSE cap

\* the portfolio value tracked after the trade of the day
PortfolioValue(cap, pos, dataPoint) ==
    IF pos # Null
    THEN Mul(cap, Div(Num(dataPoint.price), Num(pos.price)))
    ELSE cap

\* UpdateMaxCapital that never raises the peak
UpdateMaxCapitalStale(maxCap, portfolioValue) == maxCap

\* maxCapital = Math.max(maxCapital, portfolioValue)
UpdateMaxCapital(maxCap, portfolioValue) == Max(maxCap, portfolioValue)

\* PushPortfolio that records a point only while a position is open
PushPortfolioWhenLong(dailyPortfolio, point) ==
    IF point.position = "LONG" THEN Append(dailyPortfolio, point) ELSE dailyPortfolio

\* results.dailyPortfolio.push(point)
PushPortfolio(dailyPortfolio, point) == Append(dailyPortfolio, point)

\* Forced that never closes the remaining position
ForcedNever(pos) == FALSE

\* if (position) after the loop
Forced(pos) == pos # Null

\* the body of the for loop of backtest for the record dataPoint = priceData[i]
Iterate(dataPoint) ==
    /\ LET signal == generateSignal(config, dataPoint,
                                    IF i > 0 THEN priceData[i] ELSE Null)
           opens == Opens(signal, position)
           closes == Closes(signal, position)
           trade == closePosition(position, dataPoint)
           newCapital == IF closes THEN trade.exitCapital ELSE capital
           newPosition == IF opens THEN openPosition(config, "BUY", dataPoint, capital)
                          ELSE IF closes THEN Null ELSE position
           portfolioValue == PortfolioValue(newCapital, newPosition, dataPoint)
           newMax == UpdateMaxCapital(maxCapital, portfolioValue)
           newTrades ==
               IF opens THEN Append(results.trades, OpenEntry(dataPoint, signal, capital))
               ELSE IF closes
               THEN Append(results.trades,
                           CloseEntry(dataPoint, signal.reasoning, position, trade, newCapital))
               ELSE results.trades
       IN  /\ results' =
               [trades |-> newTrades,
                dailyPortfolio |-> PushPortfolio(results.dailyPortfolio,
                    [date |-> dataPoint.date, price |-> dataPoint.price,
                     digitalRoot |-> dataPoint.digitalRoot,
                     portfolioValue |-> portfolioValue, capital |-> newCapital,
                     position |-> IF newPosition # Null THEN "LONG" ELSE "CASH",
                     drawdown |-> Drawdown(newMax, portfolioValue)]),
                signals |-> Append(results.signals,
                    [date |-> dataPoint.date, price |-> dataPoint.price,
                     digitalRoot |-> dataPoint.digitalRoot,
                     signal |-> signal.action, reasoning |-> signal.reasoning])]
           /\ capital' = newCapital
           /\ position' = newPosition
           /\ maxCapital' = newMax
           /\ tradeHistory' = IF closes THEN Append(tradeHistory, trade) ELSE tradeHistory
    /\ i' = i + 1
    /\ UNCHANGED <<config, positions, performance, initialCapital, pc,
                   returned, previous, signalOut, callOut, uiVars>>

\* one iteration of the loop, on the next record of the series
LoopStep ==
    /\ pc = "loop"
    /\ i = Len(priceData)
    /\ Len(priceData) < MaxLen
    /\ \E rec \in Records :
          LET dataPoint == [date |-> i + 1, price |-> rec.price,
                            digitalRoot |-> rec.digitalRoot]
          IN  /\ priceData' = Append(priceData, dataPoint)
              /\ Iterate(dataPoint)

\* one iteration of the loop, on a series given in full
ReplayStep ==
    /\ pc = "loop"
    /\ i < Len(priceData)
    /\ priceData' = priceData
    /\ Iterate(priceData[i + 1])

\* the code after the loop: the forced close, the metrics and the return
Finish ==
    /\ pc = "loop"
    /\ ~(i < Len(priceData))
    /\ LET forced == Forced(position)
           lastDataPoint == priceData[Len(priceData)]
           trade == closePosition(position, lastDataPoint)
           finalCapital == IF forced THEN trade.exitCapital ELSE capital
           finalResults ==
               IF forced
               THEN [results EXCEPT !.trades = Append(@,
                        CloseEntry(lastDataPoint, <<<<"End of backtest period", 0>>>>,
                                   position, trade, finalCapital))]
               ELSE results
           finalHistory == IF forced THEN Append(tradeHistory, trade) ELSE tradeHistory
           metrics == calculatePerformanceMetrics(finalHistory, finalResults,
                                                  initialCapital, finalCapital)
       IN  /\ results' = finalResults
           /\ capital' = finalCapital
           /\ tradeHistory' = finalHistory
           /\ performance' = metrics
           /\ returned' =
               [trades |-> results'.trades,
                dailyPortfolio |-> results'.dailyPortfolio,
                signals |-> results'.signals,
                performance |-> performance',
                finalCapital |-> capital',
                totalReturn |-> Mul(Div(Sub(capital', initialCapital),
                                        initialCapital), Num(100))]
    /\ pc' = "done"
    /\ UNCHANGED <<config, positions, priceData, initialCapital, i, position,
                   maxCapital, previous, signalOut, callOut, uiVars>>

Next == Backtest \/ LoopStep \/ Finish

Spec == Init /\ [][Next]_vars

\* two consecutive calls of backtest on one instance
NextTwice == BacktestSeries \/ BacktestAgain \/ ReplayStep \/ Finish

InitTwice == \E cfg \in TwiceConfigs : Constructed(cfg)

SpecTwice == InitTwice /\ [][NextTwice]_vars

\* ------------------------------------------------------------------------
\* The same series backtested by two strategies whose configurations differ
\* only in the risk-management, holding-period, fee and slippage fields
\* ------------------------------------------------------------------------
\* configurations of the first strategy of a pair
PairConfigs ==
    { cfg \in BacktestConfigs : ~cfg.useTeslaFilter /\ ~cfg.useSequenceFilter }

\* the configurations of the second strategy: one of stopLossPercent,
\* takeProfitPercent and minimumHoldPeriod changed, or the fields feePercent
\* and slippageBps of the user interface's configuration added by ...config
IgnoredVariants(cfg) ==
    { [cfg EXCEPT !.stopLossPercent = 5],
      [cfg EXCEPT !.takeProfitPercent = 40],
      [cfg EXCEPT !.minimumHoldPeriod = 2],
      cfg @@ [feePercent |-> Norm(1, 10), slippageBps |-> 5] }

InitPair == \E cfg \in PairConfigs : Constructed(cfg)

\* new VortexStrategy(other).backtest(series, cap), after the first
\* strategy's run on the same arguments; the instance fields are from now on
\* those of the second strategy and previous keeps the first one's result
BacktestOther ==
    /\ pc = "done"
    /\ previous = Null
    /\ \E other \in IgnoredVariants(config) : config' = other
    /\ Enter(priceData, initialCapital)
    /\ previous' = returned
    /\ UNCHANGED <<returned, signalOut, callOut, uiVars>>

NextPair == BacktestSeries \/ BacktestOther \/ ReplayStep \/ Finish

SpecPair == InitPair /\ [][NextPair]_vars

\* ------------------------------------------------------------------------
\* Backtests started with an initial capital of 0
\* ------------------------------------------------------------------------
\* backtest(series, 0) on a fresh instance, the series disclosed as it is read
BacktestZeroCapital ==
    /\ pc = "idle"
    /\ Enter(<<>>, Num(0))
    /\ UNCHANGED <<config, returned, previous, signalOut, callOut, uiVars>>

NextZero == BacktestZeroCapital \/ LoopStep \/ Finish

SpecZero == Init /\ [][NextZero]_vars

\* ------------------------------------------------------------------------
\* Direct calls of generateSignal, over every configuration
\* ------------------------------------------------------------------------
InitSignal == \E cfg \in SignalConfigs : Constructed(cfg)

\* strategy.generateSignal(currentData, previousData)
CallGenerateSignal ==
    /\ pc = "idle"
    /\ signalOut = Null
    /\ \E root \in Roots, prev \in {Null} \cup { [digitalRoot |-> r] : r \in {1, 4, 9} } :
          signalOut' = [digitalRoot |-> root, previousData |-> prev,
                        signal |-> generateSignal(config, [digitalRoot |-> root], prev)]
    /\ UNCHANGED <<config, positions, tradeHistory, performance, priceData,
                   initialCapital, pc, i, capital, position, maxCapital, results,
                   returned, previous, callOut, uiVars>>

NextSignal == CallGenerateSignal

SpecSignal == InitSignal /\ [][NextSignal]_vars

\* ------------------------------------------------------------------------
\* Direct calls of the static functions of VortexMath
\* ------------------------------------------------------------------------
\* the configuration of new VortexStrategy()
DefaultConfig == MakeConfig(1, 5, 9, TRUE, TRUE, Num(1))

\* everything but callOut stays as constructed
StaticFrame ==
    UNCHANGED <<config, positions, tradeHistory, performance, priceData,
                initialCapital, pc, i, capital, position, maxCapital, results,
                returned, previous, signalOut, uiVars>>

InitMath == Constructed(DefaultConfig)

\* VortexMath.digitalRoot and VortexMath.digitalRootIterative on n and on -n
CallDigitalRoot ==
    /\ callOut = Null
    /\ \E n \in 0..MaxNumber :
          callOut' = [fn |-> "digitalRoot", n |-> n,
                      modular |-> digitalRoot(n),
                      iterative |-> digitalRootIterative(n),
                      negated |-> digitalRoot(-n)]
    /\ StaticFrame

\* VortexMath.generateVortexSequence(start, multiplier, base, length)
CallGenerateVortexSequence ==
    /\ callOut = Null
    /\ \E base \in 1..MaxBase, multiplier \in 1..MaxMultiplier, length \in 0..MaxSeqLength :
          \E start \in 1..base :
             callOut' = [fn |-> "generateVortexSequence", start |-> start,
                         multiplier |-> multiplier, base |-> base, length |-> length,
                         sequence |-> generateVortexSequence(start, multiplier, base, length)]
    /\ StaticFrame

\* VortexMath.doublingSequence(length)
CallDoublingSequence ==
    /\ callOut = Null
    /\ \E length \in 0..MaxSeqLength :
          callOut' = [fn |-> "doublingSequence", start |-> 1, multiplier |-> 2,
                      base |-> 9, length |-> length,
                      sequence |-> doublingSequence(length)]
    /\ StaticFrame

NextMath == CallDigitalRoot \/ CallGenerateVortexSequence \/ CallDoublingSequence

SpecMath == InitMath /\ [][NextMath]_vars

\* ------------------------------------------------------------------------
\* DataProcessor
\* ------------------------------------------------------------------------
Infinity == [n |-> 1, d |-> 0]

\* Math.round(x): the nearest integer, halves rounded up
Round(x) == IF x.d = 0 THEN x ELSE Num((2 * x.n + x.d) \div (2 * x.d))

\* Math.min(x, y)
Min(x, y) == IF IsNaN(x) \/ IsNaN(y) THEN NaN ELSE IF Lt(y, x) THEN y ELSE x

\* Math.min(...list), Infinity for the empty list
RECURSIVE MinSpread(_)
MinSpread(list) ==
    IF list = <<>> THEN Infinity
    ELSE Min(MinSpread(SubSeq(list, 1, Len(list) - 1)), list[Len(list)])

\* Math.max(...list), -Infinity for the empty list
RECURSIVE MaxSpread(_)
MaxSpread(list) ==
    IF list = <<>> THEN Neg(Infinity)
    ELSE Max(MaxSpread(SubSeq(list, 1, Len(list) - 1)), list[Len(list)])

\* VortexMath.digitalRoot on a number that need not be finite: Math.abs(x) % 9
\* of NaN and of the infinities is NaN, and NaN === 0 is false
digitalRootOfNumber(x) == IF x.d = 0 THEN NaN ELSE Num(digitalRoot(x.n))

\* [1, 2, 4, 8, 7, 5].indexOf(digitalRoot)
getSequencePosition(root) ==
    LET sequence == <<1, 2, 4, 8, 7, 5>>
        found == { k \in 1..Len(sequence) : Num(sequence[k]) = root }
    IN  IF found = {} THEN -1 ELSE (CHOOSE k \in found : TRUE) - 1

\* the dataPoint built by the forEach callback for prices[index] (index from
\* 1); timestamps count half days, so the calendar day is timestamp \div 2
DataPoint(prices, index) ==
    LET timestamp == prices[index][1]
        price == prices[index][2]
        root == digitalRootOfNumber(Round(price))
        before == prices[index - 1][2]
    IN  [date |-> timestamp \div 2,
         timestamp |-> timestamp,
         price |-> price,
         priceRounded |-> Round(price),
         digitalRoot |-> root,
         vortexSequencePosition |-> getSequencePosition(root),
         isDoublingSequence |-> root.d = 1 /\ isInDoublingSequence(root.n),
         isTeslaNumber |-> root.d = 1 /\ isTeslaNumber(root.n),
         priceChange |-> IF index > 1 THEN Sub(price, before) ELSE Num(0),
         priceChangePercent |->
             IF index > 1 THEN Mul(Div(Sub(price, before), before), Num(100))
             ELSE Num(0)]

\* calculateStatistics without the figures that need a square root or a
\* formatted string (standardDeviation, volatility, the percentages)
calculateStatistics(dailyData) ==
    LET prices == [k \in 1..Len(dailyData) |-> dailyData[k].price]
        minPrice == MinSpread(prices)
        maxPrice == MaxSpread(prices)
        avgPrice == Div(SumSeq(prices), Num(Len(prices)))
        doublingSequenceCount ==
            Cardinality({ k \in 1..Len(dailyData) : dailyData[k].isDoublingSequence })
        teslaNumberCount ==
            Cardinality({ k \in 1..Len(dailyData) : dailyData[k].isTeslaNumber })
    IN  [priceRange |-> [min |-> minPrice, max |-> maxPrice, average |-> avgPrice],
         digitalRootDistribution |->
             [frequencies |->
                 [r \in 1..9 |->
                     Cardinality({ k \in 1..Len(dailyData) :
                                     dailyData[k].digitalRoot = Num(r) })]],
         vortexMetrics |->
             [doublingSequenceOccurrences |-> doublingSequenceCount,
              teslaNumberOccurrences |-> teslaNumberCount],
         dataQuality |->
             [totalRecords |-> Len(dailyData),
              priceRange |-> Sub(maxPrice, minPrice)]]

\* processRawData: rawData.prices is undefined, a value that is no array,
\* or an array of [timestamp, price] pairs.  The metadata of the result (a
\* copy of the caller's metadata and the time of the call) holds nothing of
\* the series but totalRecords
processRawData(rawData) ==
    IF rawData.kind # "array"
    THEN [threw |-> TRUE, message |-> "Invalid data format: prices array not found"]
    ELSE LET dailyData == [k \in 1..Len(rawData.prices) |-> DataPoint(rawData.prices, k)]
         IN  [threw |-> FALSE,
              metadata |-> [totalRecords |-> Len(rawData.prices)],
              dailyData |-> dailyData,
              statistics |-> calculateStatistics(dailyData)]

\* the prices of the raw records: negative, zero, positive below one half,
\* one half, integers with every kind of digital root, Infinity and NaN
RawPrices ==
    {Num(-1), Num(0), [n |-> 1, d |-> 4], [n |-> 1, d |-> 2], Num(1), Num(9),
     Num(12), Infinity, NaN}

RawRecords == { <<timestamp, price>> : timestamp \in 1..MaxTimestamp, price \in RawPrices }

RawPriceLists ==
    UNION { [1..len -> RawRecords] : len \in 0..MaxRecords }

RawData ==
    {[kind |-> "undefined", prices |-> <<>>], [kind |-> "object", prices |-> <<>>]}
        \cup { [kind |-> "array", prices |-> list] : list \in RawPriceLists }

InitData == Constructed(DefaultConfig)

\* DataProcessor.processRawData(rawData)
CallProcessRawData ==
    /\ callOut = Null
    /\ \E rawData \in RawData :
          callOut' = [fn |-> "processRawData", rawData |-> rawData,
                      out |-> processRawData(rawData)]
    /\ StaticFrame

NextData == CallProcessRawData

SpecData == InitData /\ [][NextData]_vars

\* ------------------------------------------------------------------------
\* Claims about VortexMath (checked under SpecMath)
\* ------------------------------------------------------------------------
\* the sum of the decimal digits of n
RECURSIVE DigitSum(_)
DigitSum(n) == IF n < 10 THEN n ELSE (n % 10) + DigitSum(n \div 10)

\* the decimal digits of n summed repeatedly until one digit remains
RECURSIVE IteratedDigitSum(_)
IteratedDigitSum(n) == IF n < 10 THEN n ELSE IteratedDigitSum(DigitSum(n))

\* C11: for every integer n >= 0, digitalRoot(n) equals
\* digitalRootIterative(n), the iterated digit sum of n, which is 0 for 0 and
\* 9 for every positive multiple of 9; and digitalRoot(-n) = digitalRoot(n)
C11_DigitalRootAgrees ==
    (callOut # Null /\ callOut.fn = "digitalRoot") =>
        /\ callOut.modular = callOut.iterative
        /\ callOut.modular = IteratedDigitSum(callOut.n)
        /\ (callOut.n = 0 => callOut.modular = 0)
        /\ (callOut.n > 0 /\ callOut.n % 9 = 0 => callOut.modular = 9)
        /\ callOut.negated = callOut.modular

\* 189 is a multiple of 9 whose digits sum to 18 and then to 9
C11_Witness ==
    /\ callOut # Null /\ callOut.fn = "digitalRoot"
    /\ callOut.n = 189
    /\ callOut.modular = 9
    /\ callOut.iterative = 9

\* a call of generateVortexSequence, directly or through doublingSequence
SequenceCalled ==
    callOut # Null /\ callOut.fn \in {"generateVortexSequence", "doublingSequence"}

\* C12: generateVortexSequence stops as soon as the running value returns to
\* start: an element equal to start after the first one is the last element,
\* so start is repeated at most once, and a sequence that ended before
\* length elements ends with that repetition
C12_CycleClosure ==
    SequenceCalled =>
        LET sequence == callOut.sequence
        IN  /\ \A k \in 2..Len(sequence) :
                  sequence[k] = callOut.start => k = Len(sequence)
            /\ Cardinality({ k \in 2..Len(sequence) : sequence[k] = callOut.start }) <= 1
            /\ (Len(sequence) > 1 /\ Len(sequence) < callOut.length
                    => sequence[Len(sequence)] = callOut.start)

\* C13: the sequence returned by generateVortexSequence has at most length
\* elements, for every length >= 0
C13_LengthBound ==
    SequenceCalled => Len(callOut.sequence) <= callOut.length

Canonical == <<1, 2, 4, 8, 7, 5, 1>>

\* C14: generateVortexSequence(1, 2, 9, L) and doublingSequence(L) return
\* <<1,2,4,8,7,5,1>> for L >= 7 and its first L elements for 1 <= L < 7
C14_CanonicalDoubling ==
    (/\ SequenceCalled
     /\ callOut.start = 1 /\ callOut.multiplier = 2 /\ callOut.base = 9
     /\ callOut.length >= 1)
        => callOut.sequence =
              SubSeq(Canonical, 1, IF callOut.length >= 7 THEN 7 ELSE callOut.length)

\* doublingSequence(9) stops after the seven elements of the closed cycle
C14_Witness ==
    /\ callOut # Null /\ callOut.fn = "doublingSequence"
    /\ callOut.length = 9
    /\ Len(callOut.sequence) = 7
    /\ callOut.sequence[7] = 1

\* ------------------------------------------------------------------------
\* Claims about the metrics of a finished run (checked under Spec)
\* ------------------------------------------------------------------------
\* the numeric fields of the performance object
MetricNumbers(perf) ==
    {perf.totalReturn, perf.winRate, perf.maxDrawdown, perf.sharpeRatio,
     perf.avgWin, perf.avgLoss, perf.profitFactor, perf.avgHoldingPeriod}

\* C17: backtest on an empty series returns a result with no trades, no
\* equity point, finalCapital = initialCapital, total return 0, totalTrades 0,
\* winRate 0, maxDrawdown 0 and sharpeRatio 0, and no metric is NaN
C17_EmptySeries ==
    (pc = "done" /\ priceData = <<>>) =>
        /\ returned.trades = <<>>
        /\ returned.dailyPortfolio = <<>>
        /\ returned.finalCapital = initialCapital
        /\ returned.totalReturn = Num(0)
        /\ returned.performance.totalReturn = Num(0)
        /\ returned.performance.totalTrades = 0
        /\ returned.performance.winRate = Num(0)
        /\ returned.performance.maxDrawdown = Num(0)
        /\ returned.performance.sharpeRatio = Num(0)
        /\ \A x \in MetricNumbers(returned.performance) : ~IsNaN(x)

\* a finished run over the empty series with initial capital 2
C17_Witness ==
    /\ pc = "done"
    /\ priceData = <<>>
    /\ initialCapital = Num(2)
    /\ returned.finalCapital = Num(2)
    /\ returned.performance.totalTrades = 0

\* C19: the performance object returned by calculatePerformanceMetrics has a
\* numeric sortinoRatio
C19_SortinoReported ==
    pc = "done" => "sortinoRatio" \in DOMAIN returned.performance

\* the CLOSE entries of the ledger
ClosedTrades == SelectSeq(returned.trades, LAMBDA t : t.type = "CLOSE")

\* the number of closed trades whose profit has the sign sgn
ProfitSignCount(sgn) ==
    Cardinality({ k \in 1..Len(ClosedTrades) : Sign(ClosedTrades[k].profit.n) = sgn })

\* C20: totalTrades counts every closed trade, winningTrades those with
\* profit > 0 and losingTrades those with profit < 0, a zero-profit trade
\* being in neither; winRate = winningTrades / totalTrades * 100, and 0 when
\* there is no trade
C20_WinRate ==
    pc = "done" =>
        LET perf == returned.performance
        IN  /\ perf.totalTrades = Len(ClosedTrades)
            /\ perf.winningTrades = ProfitSignCount(1)
            /\ perf.losingTrades = ProfitSignCount(-1)
            /\ perf.winningTrades + perf.losingTrades <= perf.totalTrades
            /\ perf.totalTrades > 0 =>
                  perf.winRate = Norm(perf.winningTrades * 100, perf.totalTrades)
            /\ perf.totalTrades = 0 => perf.winRate = Num(0)
            /\ ~IsNaN(perf.winRate)

\* a run with a winning trade and a zero-profit trade: win rate 50
C20_Witness ==
    /\ pc = "done"
    /\ returned.performance.totalTrades = 2
    /\ returned.performance.winningTrades = 1
    /\ returned.performance.losingTrades = 0
    /\ ProfitSignCount(0) = 1
    /\ returned.performance.winRate = Num(50)

\* ------------------------------------------------------------------------
\* Claims about DataProcessor (checked under SpecData)
\* ------------------------------------------------------------------------
Processed == callOut # Null /\ callOut.fn = "processRawData"

\* x is a finite number greater than 0
PositiveFinite(x) == x.d # 0 /\ x.n > 0

\* C15: processRawData fails with the invalid-format error when prices is
\* missing, when it is no array and when the array holds a price that is
\* zero, negative or not finite
C15_InputValidation ==
    (/\ Processed
     /\ \/ callOut.rawData.kind # "array"
        \/ \E k \in 1..Len(callOut.rawData.prices) :
              ~PositiveFinite(callOut.rawData.prices[k][2]))
        => (/\ callOut.out.threw
            /\ callOut.out.message = "Invalid data format: prices array not found")

\* C16: processRawData fails whenever a timestamp of the input is less than
\* or equal to the timestamp before it
C16_MonotonicTimestamps ==
    (/\ Processed
     /\ callOut.rawData.kind = "array"
     /\ \E k \in 2..Len(callOut.rawData.prices) :
           callOut.rawData.prices[k][1] <= callOut.rawData.prices[k - 1][1])
        => callOut.out.threw

RECURSIVE SumTo(_, _)
SumTo(f, r) == IF r = 0 THEN 0 ELSE f[r] + SumTo(f, r - 1)

\* C18: for a series of positive prices the frequencies of the digital
\* roots 1..9 add up to the number of daily records
C18_FrequencyTotal ==
    (/\ Processed
     /\ callOut.rawData.kind = "array"
     /\ \A k \in 1..Len(callOut.rawData.prices) :
           PositiveFinite(callOut.rawData.prices[k][2])
     /\ ~callOut.out.threw)
        => SumTo(callOut.out.statistics.digitalRootDistribution.frequencies, 9)
              = Len(callOut.out.dailyData)

\* ------------------------------------------------------------------------
\* Claims about generateSignal (checked under SpecSignal)
\* ------------------------------------------------------------------------
Called == signalOut # Null

\* C1: when useSequenceFilter is enabled and the digital root is not in
\* {1,2,4,8,7,5}, generateSignal returns HOLD, whatever useTeslaFilter and
\* the buy/sell/hold targets are
C1_SequenceGateFirst ==
    (Called /\ config.useSequenceFilter
            /\ signalOut.digitalRoot \notin {1, 2, 4, 8, 7, 5})
        => signalOut.signal.action = "HOLD"

\* both filters enabled, digital root 3, buy target 3: the result is HOLD
C1_Witness ==
    /\ Called
    /\ config.useSequenceFilter /\ config.useTeslaFilter
    /\ config.buySignal = 3
    /\ signalOut.digitalRoot = 3
    /\ signalOut.signal.action = "HOLD"

\* C2: with the sequence filter disabled and useTeslaFilter enabled, a digital
\* root 3 gives BUY, 6 gives SELL and 9 gives HOLD, whatever the targets are
C2_PatternOverride ==
    (Called /\ ~config.useSequenceFilter /\ config.useTeslaFilter
            /\ signalOut.digitalRoot \in {3, 6, 9})
        => signalOut.signal.action =
              (CASE signalOut.digitalRoot = 3 -> "BUY"
                 [] signalOut.digitalRoot = 6 -> "SELL"
                 [] signalOut.digitalRoot = 9 -> "HOLD")

\* digital root 6 is the configured buy target and still gives SELL
C2_Witness ==
    /\ Called
    /\ ~config.useSequenceFilter /\ config.useTeslaFilter
    /\ config.buySignal = 6
    /\ signalOut.digitalRoot = 6
    /\ signalOut.signal.action = "SELL"

\* neither filter decides the record of the call
BaseRuleApplies ==
    /\ Called
    /\ ~(config.useSequenceFilter /\ signalOut.digitalRoot \notin {1, 2, 4, 8, 7, 5})
    /\ ~(config.useTeslaFilter /\ signalOut.digitalRoot \in {3, 6, 9})

\* the actions whose configured target equals the digital root of the call
MatchingActions ==
    (IF signalOut.digitalRoot = config.buySignal THEN {"BUY"} ELSE {})
        \cup (IF signalOut.digitalRoot = config.sellSignal THEN {"SELL"} ELSE {})
        \cup (IF signalOut.digitalRoot = config.holdSignal THEN {"HOLD"} ELSE {})

\* C3: when neither filter decides the record, generateSignal returns an
\* action whose configured target equals the digital root, and HOLD when the
\* root equals none of buySignal, sellSignal, holdSignal
C3_BaseRule ==
    BaseRuleApplies
        => IF MatchingActions = {} THEN signalOut.signal.action = "HOLD"
           ELSE signalOut.signal.action \in MatchingActions

\* filters off, the digital root is the sell target only: SELL
C3_Witness ==
    /\ BaseRuleApplies
    /\ ~config.useSequenceFilter /\ ~config.useTeslaFilter
    /\ signalOut.digitalRoot = config.sellSignal
    /\ signalOut.digitalRoot # config.buySignal
    /\ signalOut.digitalRoot # config.holdSignal
    /\ signalOut.signal.action = "SELL"

\* ------------------------------------------------------------------------
\* Claims about backtest (checked under Spec)
\* ------------------------------------------------------------------------
EndOfPeriod == <<<<"End of backtest period", 0>>>>

\* the number of ledger entries of the given type
CountType(trades, type) == Cardinality({ k \in 1..Len(trades) : trades[k].type = type })

\* the step is one iteration of the loop
IsIteration == pc = "loop" /\ pc' = "loop" /\ i' = i + 1

\* the signal of the record processed by the step
StepSignal == results'.signals[Len(results'.signals)].signal

\* C4: a run starts FLAT; during the walk the position changes only by a BUY
\* while FLAT (which opens a position: LONG) and by a SELL while LONG (which
\* closes it: FLAT); a BUY while LONG, a SELL while FLAT and every HOLD leave
\* the position, the capital and the ledger unchanged; the ledger never holds
\* more than one OPEN entry without its CLOSE
C4_PositionStateMachine ==
    [][ /\ (pc # "loop" /\ pc' = "loop") => position' = Null
        /\ IsIteration =>
             /\ (position = Null /\ StepSignal = "BUY") =>
                    /\ position' # Null
                    /\ position'.date = i'
                    /\ position'.price = priceData'[i'].price
                    /\ capital' = capital
                    /\ Len(results'.trades) = Len(results.trades) + 1
                    /\ results'.trades[Len(results'.trades)].type = "OPEN"
             /\ (position # Null /\ StepSignal = "SELL") =>
                    /\ position' = Null
                    /\ Len(results'.trades) = Len(results.trades) + 1
                    /\ results'.trades[Len(results'.trades)].type = "CLOSE"
             /\ ~(position = Null /\ StepSignal = "BUY")
                  /\ ~(position # Null /\ StepSignal = "SELL") =>
                    /\ position' = position
                    /\ capital' = capital
                    /\ results'.trades = results.trades
                    /\ tradeHistory' = tradeHistory
             /\ CountType(results'.trades, "OPEN") - CountType(results'.trades, "CLOSE")
                  = IF position' = Null THEN 0 ELSE 1
      ]_vars

\* a BUY arrived while LONG and a SELL arrived while FLAT, and the ledger
\* holds one round trip followed by a new OPEN
C4_Witness ==
    /\ pc = "loop"
    /\ i = 3
    /\ results.signals[1].signal = "SELL"
    /\ results.signals[2].signal = "BUY"
    /\ results.signals[3].signal = "BUY"
    /\ Len(results.trades) = 1
    /\ position # Null /\ position.date = 2

\* C5: dailyPortfolio has exactly one entry per input record, in input order,
\* entry k carrying the date, price and digital root of record k; the forced
\* close adds no entry
C5_EquityCurveLength ==
    /\ pc = "loop" => Len(results.dailyPortfolio) = i
    /\ pc = "done" =>
          /\ Len(returned.dailyPortfolio) = Len(priceData)
          /\ \A k \in 1..Len(priceData) :
                /\ returned.dailyPortfolio[k].date = priceData[k].date
                /\ returned.dailyPortfolio[k].price = priceData[k].price
                /\ returned.dailyPortfolio[k].digitalRoot = priceData[k].digitalRoot

\* a run over three records that ended with a forced close
C5_Witness ==
    /\ pc = "done"
    /\ Len(priceData) = 3
    /\ Len(returned.trades) = 2
    /\ returned.trades[2].reasoning = EndOfPeriod
    /\ Len(returned.dailyPortfolio) = 3

\* C6: after record i the equity point's portfolioValue is the cash capital
\* when the state is FLAT and capital * price / entryPrice when it is LONG
C6_EquityValue ==
    (pc = "loop" /\ i > 0) =>
        LET point == results.dailyPortfolio[i]
        IN  IF position = Null
            THEN /\ point.portfolioValue = capital
                 /\ point.position # "LONG"
            ELSE /\ point.portfolioValue =
                        Div(Mul(capital, Num(priceData[i].price)), Num(position.price))
                 /\ point.position = "LONG"
                 /\ (position.date = i => point.portfolioValue = capital)

\* a position is marked to a price different from its entry price
C6_Witness ==
    /\ pc = "loop" /\ i > 0
    /\ position # Null
    /\ priceData[i].price # position.price
    /\ results.dailyPortfolio[i].portfolioValue # capital

\* the maximum of initialCapital and the first k portfolio values
RECURSIVE RunningPeak(_, _)
RunningPeak(curve, k) ==
    IF k = 0 THEN initialCapital
    ELSE LET before == RunningPeak(curve, k - 1)
         IN  IF Lt(before, curve[k].portfolioValue)
             THEN curve[k].portfolioValue ELSE before

\* C7: the peak used for the drawdown is the running maximum of the portfolio
\* values seeded at initialCapital; every drawdown lies in 0..100 and is 0 on
\* each day whose portfolio value reaches the running peak
C7_Drawdown ==
    pc \in {"loop", "done"} =>
        /\ maxCapital = RunningPeak(results.dailyPortfolio, Len(results.dailyPortfolio))
        /\ Le(initialCapital, maxCapital)
        /\ \A k \in 1..Len(results.dailyPortfolio) :
              LET point == results.dailyPortfolio[k]
              IN  /\ Le(Num(0), point.drawdown)
                  /\ Le(point.drawdown, Num(100))
                  /\ point.portfolioValue = RunningPeak(results.dailyPortfolio, k)
                        => point.drawdown = Num(0)

\* a new peak above initialCapital with drawdown 0, then a day below the peak
C7_Witness ==
    /\ pc = "loop"
    /\ \E j, k \in 1..Len(results.dailyPortfolio) :
          /\ j < k
          /\ Gt(results.dailyPortfolio[j].portfolioValue, initialCapital)
          /\ results.dailyPortfolio[j].drawdown = Num(0)
          /\ Gt(results.dailyPortfolio[k].drawdown, Num(0))

\* the profit fields of the CLOSE entries of a ledger
CloseProfits(trades) ==
    LET closes == SelectSeq(trades, LAMBDA t : t.type = "CLOSE")
    IN  [k \in 1..Len(closes) |-> closes[k].profit]

\* C8: the sum of the profit fields of all closed trades, the forced close
\* included, equals finalCapital - initialCapital
C8_RoundTrip ==
    pc = "done" =>
        SumSeq(CloseProfits(returned.trades)) = Sub(returned.finalCapital, initialCapital)

\* C9: after the last record, if and only if a position is open, backtest
\* appends one CLOSE entry with the last record's price and date and the
\* reason 'End of backtest period' and sets the capital to
\* capital * lastPrice / entryPrice; no entry pushed during the walk carries
\* that reason; a run that ends FLAT appends nothing
C9_ForcedClose ==
    [][ /\ (pc = "loop" /\ pc' = "done") =>
             IF position # Null
             THEN LET last == priceData[Len(priceData)]
                      entry == results'.trades[Len(results'.trades)]
                  IN  /\ Len(results'.trades) = Len(results.trades) + 1
                      /\ SubSeq(results'.trades, 1, Len(results.trades)) = results.trades
                      /\ entry.type = "CLOSE"
                      /\ entry.price = last.price
                      /\ entry.date = last.date
                      /\ entry.entryPrice = position.price
                      /\ entry.reasoning = EndOfPeriod
                      /\ capital' = Div(Mul(capital, Num(last.price)), Num(position.price))
                      /\ returned'.finalCapital = capital'
                      /\ returned'.trades = results'.trades
             ELSE /\ results'.trades = results.trades
                  /\ capital' = capital
                  /\ returned'.finalCapital = capital
                  /\ returned'.trades = results.trades
        /\ pc' = "loop" =>
             \A k \in 1..Len(results'.trades) : results'.trades[k].reasoning # EndOfPeriod
      ]_vars

\* a run with a signal-driven close followed by a forced close
C9_Witness ==
    /\ pc = "done"
    /\ Len(returned.trades) = 4
    /\ returned.trades[2].type = "CLOSE"
    /\ returned.trades[2].reasoning # EndOfPeriod
    /\ returned.trades[4].type = "CLOSE"
    /\ returned.trades[4].reasoning = EndOfPeriod
    /\ returned.trades[4].price = priceData[Len(priceData)].price

\* ------------------------------------------------------------------------
\* Claims about consecutive runs (checked under SpecTwice)
\* ------------------------------------------------------------------------
\* C10: the second of two backtest calls on one instance, with the same
\* series and initial capital, returns the same ledger, equity curve, signals
\* and metrics as the first, and leaves the same tradeHistory and performance
C10_Determinism ==
    (pc = "done" /\ previous # Null) =>
        /\ returned = previous
        /\ performance = previous.performance
        /\ Len(tradeHistory) = previous.performance.totalTrades

\* the second run of a series with a closed trade has returned
C10_Witness ==
    /\ pc = "done"
    /\ previous # Null
    /\ Len(previous.trades) >= 2
    /\ returned.performance.totalTrades >= 1

\* ------------------------------------------------------------------------
\* Further claims about backtest (checked under Spec)
\* ------------------------------------------------------------------------
\* the actions of the signals of the returned result
SignalActions == { returned.signals[k].signal : k \in 1..Len(returned.signals) }

\* C21: over a series in which no record yields a BUY signal the ledger is
\* empty, every equity point has portfolioValue = initialCapital and drawdown
\* 0, finalCapital = initialCapital and the total return is 0, whatever SELL
\* signals occur
C21_ZeroTradeRun ==
    (pc = "done" /\ "BUY" \notin SignalActions) =>
        /\ returned.trades = <<>>
        /\ \A k \in 1..Len(returned.dailyPortfolio) :
              /\ returned.dailyPortfolio[k].portfolioValue = initialCapital
              /\ returned.dailyPortfolio[k].drawdown = Num(0)
        /\ returned.finalCapital = initialCapital
        /\ returned.totalReturn = Num(0)
        /\ returned.performance.totalReturn = Num(0)
        /\ returned.performance.totalTrades = 0

\* a run over three records with a SELL signal and no BUY signal
C21_Witness ==
    /\ pc = "done"
    /\ Len(priceData) = 3
    /\ "SELL" \in SignalActions
    /\ "BUY" \notin SignalActions
    /\ returned.trades = <<>>


\* ------------------------------------------------------------------------
\* Claims about pairs of strategies (checked under SpecPair)
\* ------------------------------------------------------------------------
\* C22: two runs over the same series and initial capital whose
\* configurations differ only in stopLossPercent, takeProfitPercent,
\* minimumHoldPeriod or a fee or slippage field return the same signals,
\* ledger, equity curve, final capital and metrics
C22_ConfigNonInterference ==
    (pc = "done" /\ previous # Null) =>
        /\ returned.signals = previous.signals
        /\ returned.trades = previous.trades
        /\ returned.dailyPortfolio = previous.dailyPortfolio
        /\ returned.finalCapital = previous.finalCapital
        /\ returned.totalReturn = previous.totalReturn
        /\ returned.performance = previous.performance

\* the second strategy asks for a minimum holding period of 2 days and both
\* runs closed their position one day after opening it
C22_Witness ==
    /\ pc = "done"
    /\ previous # Null
    /\ config.minimumHoldPeriod = 2
    /\ Len(returned.trades) >= 2
    /\ returned.trades[1].type = "OPEN" /\ returned.trades[1].date = 1
    /\ returned.trades[2].type = "CLOSE" /\ returned.trades[2].date = 2
    /\ returned.trades[2].reasoning # EndOfPeriod
    /\ previous.trades = returned.trades


\* ------------------------------------------------------------------------
\* Claims about runs with a running peak of 0 (checked under SpecZero)
\* ------------------------------------------------------------------------
\* C23: whenever the running peak is 0 the drawdown of the equity point is 0
\* and not NaN, and the maxDrawdown derived from the points is a number
C23_DrawdownGuard ==
    /\ (pc = "loop" /\ maxCapital = Num(0)) =>
          \A k \in 1..Len(results.dailyPortfolio) :
             results.dailyPortfolio[k].drawdown = Num(0)
    /\ (pc = "done" /\ maxCapital = Num(0)) =>
          /\ \A k \in 1..Len(returned.dailyPortfolio) :
                returned.dailyPortfolio[k].drawdown = Num(0)
          /\ ~IsNaN(returned.performance.maxDrawdown)


\* ------------------------------------------------------------------------
\* Further claims about the steps of backtest (checked under Spec)
\* ------------------------------------------------------------------------
\* the position is closed by the step, in the walk or by the forced close
ClosesPosition ==
    /\ pc = "loop"
    /\ position # Null
    /\ \/ pc' = "done"
       \/ IsIteration /\ position' = Null

\* the price at which the step closes the position
ClosingPrice == IF pc' = "done" THEN priceData[Len(priceData)].price ELSE priceData'[i'].price

\* C24: the cash capital is unchanged by opening a position and by every
\* record that does not close one; closing a position opened with capital c
\* at price p_in at the price p_out sets the capital to c * p_out / p_in,
\* whatever the allocation fraction is
C24_CapitalAtClose ==
    [][ /\ (pc = "loop" /\ ~ClosesPosition) => capital' = capital
        /\ ClosesPosition =>
             /\ position.capital = capital
             /\ capital' = Div(Mul(position.capital, Num(ClosingPrice)),
                               Num(position.price))
      ]_vars

\* initial capital 1 entered at price 1 and closed by a SELL at price 2 with
\* an allocation fraction of 1/2: the capital is 2, a total return of 100
C24_Witness ==
    /\ pc = "done"
    /\ config.maxPositionSize = Norm(1, 2)
    /\ initialCapital = Num(1)
    /\ Len(returned.trades) = 2
    /\ returned.trades[1].price = 1
    /\ returned.trades[2].price = 2
    /\ returned.trades[2].reasoning # EndOfPeriod
    /\ returned.finalCapital = Num(2)
    /\ returned.totalReturn = Num(100)


\* the ledger alternates OPEN, CLOSE, ..., from an OPEN to a CLOSE, and each
\* CLOSE names the date and price of the OPEN before it
Alternates(trades) ==
    /\ Len(trades) % 2 = 0
    /\ \A k \in 1..Len(trades) :
          IF k % 2 = 1
          THEN trades[k].type = "OPEN"
          ELSE /\ trades[k].type = "CLOSE"
               /\ trades[k].entryDate = trades[k - 1].date
               /\ trades[k].entryPrice = trades[k - 1].price

\* C25: the returned ledger strictly alternates OPEN, CLOSE, starting with
\* OPEN and ending with CLOSE; each CLOSE carries the date and price of the
\* OPEN right before it; a record adds at most one entry during the walk;
\* and trades.length = 2 * performance.totalTrades
C25_LedgerAlternation ==
    [][ /\ IsIteration =>
             /\ Len(results'.trades) - Len(results.trades) \in {0, 1}
             /\ SubSeq(results'.trades, 1, Len(results.trades)) = results.trades
        /\ pc' = "done" =>
             /\ Alternates(returned'.trades)
             /\ Len(returned'.trades) = 2 * returned'.performance.totalTrades
      ]_vars

\* a ledger of four entries: a round trip, then an OPEN closed by the forced
\* close
C25_Witness ==
    /\ pc = "done"
    /\ Len(returned.trades) = 4
    /\ returned.trades[2].reasoning # EndOfPeriod
    /\ returned.trades[3].type = "OPEN"
    /\ returned.trades[4].reasoning = EndOfPeriod
    /\ returned.trades[4].entryDate = returned.trades[3].date
    /\ returned.performance.totalTrades = 2


\* C26: for a non-empty series the returned finalCapital equals the
\* portfolioValue of the last equity point, whether the run ended FLAT or
\* its open position was closed by the forced close
C26_FinalCapitalOnCurve ==
    (pc = "done" /\ Len(priceData) > 0) =>
        returned.finalCapital =
            returned.dailyPortfolio[Len(returned.dailyPortfolio)].portfolioValue

\* a position entered at price 1 with half of the capital allocated and
\* force-closed at price 2
C26_Witness ==
    /\ pc = "done"
    /\ Len(priceData) > 0
    /\ config.maxPositionSize = Norm(1, 2)
    /\ Len(returned.trades) > 0
    /\ returned.trades[Len(returned.trades)].reasoning = EndOfPeriod
    /\ returned.trades[Len(returned.trades)].entryPrice = 1
    /\ returned.trades[Len(returned.trades)].price = 2
    /\ returned.finalCapital = Mul(initialCapital, Num(2))


\* ------------------------------------------------------------------------
\* Further claims about generateSignal (checked under SpecSignal)
\* ------------------------------------------------------------------------
\* the action generateSignal returns for the same call when cfg is the
\* configuration of the strategy
ActionUnder(cfg) ==
    generateSignal(cfg, [digitalRoot |-> signalOut.digitalRoot],
                   signalOut.previousData).action

\* C27: every root 1..9 satisfies exactly one of isInDoublingSequence and
\* isTeslaNumber; so with useSequenceFilter enabled the roots 3, 6 and 9
\* yield HOLD, every BUY or SELL comes from a configured target in
\* {1,2,4,8,7,5}, and the value of useTeslaFilter does not change the action
C27_FiltersPartition ==
    /\ \A r \in 1..9 : isInDoublingSequence(r) <=> ~isTeslaNumber(r)
    /\ (Called /\ config.useSequenceFilter) =>
          /\ signalOut.digitalRoot \in {3, 6, 9} => signalOut.signal.action = "HOLD"
          /\ signalOut.signal.action = "BUY" =>
                /\ signalOut.digitalRoot = config.buySignal
                /\ signalOut.digitalRoot \in {1, 2, 4, 8, 7, 5}
          /\ signalOut.signal.action = "SELL" =>
                /\ signalOut.digitalRoot = config.sellSignal
                /\ signalOut.digitalRoot \in {1, 2, 4, 8, 7, 5}
          /\ ActionUnder([config EXCEPT !.useTeslaFilter = ~@]) = signalOut.signal.action

\* both filters enabled, digital root 6, sell target 6: HOLD, not SELL
C27_Witness ==
    /\ Called
    /\ config.useSequenceFilter /\ config.useTeslaFilter
    /\ config.sellSignal = 6
    /\ signalOut.digitalRoot = 6
    /\ signalOut.signal.action = "HOLD"
    /\ ActionUnder([config EXCEPT !.useTeslaFilter = FALSE]) = "HOLD"


\* ------------------------------------------------------------------------
\* Claims about the signals of a run (checked under Spec)
\* ------------------------------------------------------------------------
\* the records generateSignal may be given as previousData
PreviousRecords == {Null} \cup { [digitalRoot |-> r] : r \in Roots }

\* C28: the action generateSignal returns for a record depends only on the
\* record's digital root and the configuration: it is the action returned
\* for any previous record or none, whether or not a position is open
C28_Memoryless ==
    [][ IsIteration =>
          \A prev \in PreviousRecords :
             generateSignal(config, [digitalRoot |-> priceData'[i'].digitalRoot],
                            prev).action = StepSignal
      ]_vars

\* the first and the third record both gave BUY, the third while the
\* position opened by the first was still open, with different reasoning
C28_Witness ==
    /\ pc = "done"
    /\ Len(returned.signals) = 3
    /\ returned.signals[1].signal = "BUY"
    /\ returned.signals[3].signal = "BUY"
    /\ returned.signals[1].digitalRoot = returned.signals[3].digitalRoot
    /\ returned.signals[1].reasoning # returned.signals[3].reasoning
    /\ Len(returned.trades) = 2
    /\ returned.trades[1].date = 1
    /\ returned.trades[2].reasoning = EndOfPeriod


\* one of the two filters decides the signal of a record with this root
FilterDecides(root) ==
    \/ config.useSequenceFilter /\ root \notin {1, 2, 4, 8, 7, 5}
    \/ config.useTeslaFilter /\ root \in {3, 6, 9}

\* C29: under the base rule the buy target is tested before the sell target
\* and the sell target before the hold target, so a root equal to buySignal
\* yields BUY even if it is also the sell or the hold target; with
\* buySignal = sellSignal the base rule never emits SELL, a record leaves an
\* open position open, and a position is closed only by the forced close
C29_TargetPrecedence ==
    [][ /\ IsIteration =>
             LET root == priceData'[i'].digitalRoot
             IN  ~FilterDecides(root) =>
                    /\ root = config.buySignal => StepSignal = "BUY"
                    /\ \A sell \in {root, config.sellSignal}, hold \in 1..9 :
                          generateSignal([config EXCEPT !.buySignal = root,
                                                        !.sellSignal = sell,
                                                        !.holdSignal = hold],
                                         [digitalRoot |-> root], Null).action = "BUY"
                    /\ \A buy \in (1..9) \ {root} :
                          generateSignal([config EXCEPT !.buySignal = buy,
                                                        !.sellSignal = root,
                                                        !.holdSignal = root],
                                         [digitalRoot |-> root], Null).action = "SELL"
                    /\ config.buySignal = config.sellSignal =>
                          /\ StepSignal # "SELL"
                          /\ position # Null => position' = position
        /\ (pc' = "done" /\ config.buySignal = config.sellSignal
                /\ \A k \in 1..Len(priceData) : ~FilterDecides(priceData[k].digitalRoot)) =>
             \A k \in 1..Len(returned'.trades) :
                returned'.trades[k].type = "CLOSE" =>
                   returned'.trades[k].reasoning = EndOfPeriod
      ]_vars

\* buy and sell target are both 1: the position opened by the first record
\* stays open at a later record with root 1 and is closed by the forced close
C29_Witness ==
    /\ pc = "done"
    /\ config.buySignal = config.sellSignal
    /\ ~config.useTeslaFilter /\ ~config.useSequenceFilter
    /\ Len(returned.signals) = 3
    /\ returned.signals[2].digitalRoot = config.sellSignal
    /\ returned.signals[2].signal = "BUY"
    /\ Len(returned.trades) = 2
    /\ returned.trades[1].date = 1
    /\ returned.trades[2].date = 3
    /\ returned.trades[2].reasoning = EndOfPeriod


\* ------------------------------------------------------------------------
\* The page: runBacktest behind the run button
\* ------------------------------------------------------------------------

\* every other variable of the model, untouched by the page's handlers
StrategyFrame ==
    UNCHANGED <<config, positions, tradeHistory, performance, priceData,
                initialCapital, pc, i, capital, position, maxCapital, results,
                returned, previous, signalOut, callOut>>

\* a guard that never returns early
NeverRunning == FALSE

\* if (appState.isRunning) return;
AlreadyRunning == appState.isRunning

\* the text and the disabled flag the handler gives the button
RunButton(running) ==
    [textContent |-> IF running THEN "Running..." ELSE "Run Backtest",
     disabled |-> running]

\* invocations suspended at one of the awaits of runBacktest
InFlight == { k \in 1..Len(runs) : runs[k] \in {"awaitLoad", "awaitChart"} }

\* how the try block can go on from `const Strategy = window.VortexStrategy`:
\* a throw before backtestResults is assigned (processedData still null, no
\* strategy class, an empty date range), a throw after it, the suspension at
\* the chart's await, or the end of the block without a chart function
Continuations(loaded) ==
    IF loaded THEN {"throwBefore", "throwAfter", "awaitChart", "completed"}
    ELSE {"throwBefore"}

\* the position an invocation is left at by a continuation
PositionAfter(outcome) ==
    CASE outcome \in {"throwBefore", "throwAfter"} -> "failed"
      [] outcome = "awaitChart" -> "awaitChart"
      [] OTHER -> "completed"

\* the try block from line 244 on, up to the next suspension or to the end
\* of the handler through the last statements of the block or of the catch
Continue(id, loaded, outcome, runsAfter) ==
    /\ outcome \in Continuations(loaded)
    /\ backtestResults' = IF outcome = "throwBefore" THEN backtestResults ELSE id
    /\ appState' = [appState EXCEPT !.isRunning = (outcome = "awaitChart")]
    /\ button' = RunButton(outcome = "awaitChart")
    /\ runs' = runsAfter

\* a click on the run button: runBacktest up to its first suspension
Click ==
    /\ Len(runs) < MaxClicks
    /\ IF AlreadyRunning
       THEN /\ runs' = Append(runs, "returned")
            /\ UNCHANGED <<appState, button, processedData, backtestResults>>
       ELSE \/ \* updateConfigFromForm or showNotification throws
               /\ appState' = [appState EXCEPT !.isRunning = FALSE]
               /\ button' = RunButton(FALSE)
               /\ runs' = Append(runs, "failed")
               /\ UNCHANGED <<processedData, backtestResults>>
            \/ \* await loadHistoricalData()
               /\ ~processedData
               /\ appState' = [appState EXCEPT !.isRunning = TRUE]
               /\ button' = RunButton(TRUE)
               /\ runs' = Append(runs, "awaitLoad")
               /\ UNCHANGED <<processedData, backtestResults>>
            \/ /\ processedData
               /\ \E outcome \in Continuations(TRUE) :
                     Continue(Len(runs) + 1, TRUE, outcome,
                              Append(runs, PositionAfter(outcome)))
               /\ UNCHANGED processedData
    /\ StrategyFrame

\* the awaited loadHistoricalData() settles: it never rejects, and leaves
\* processedData as it is when the fetch fails
ResumeLoad ==
    /\ \E k \in 1..Len(runs), loaded \in {TRUE, processedData} :
          /\ runs[k] = "awaitLoad"
          /\ processedData' = loaded
          /\ \E outcome \in Continuations(loaded) :
                Continue(k, loaded, outcome,
                         [runs EXCEPT ![k] = PositionAfter(outcome)])
    /\ StrategyFrame

\* the awaited renderPriceChartWithVortex settles: resolved, rejected and
\* handled by the inner catch, or rejected with the inner catch throwing
ResumeChart ==
    /\ \E k \in 1..Len(runs), position_ \in {"completed", "failed"} :
          /\ runs[k] = "awaitChart"
          /\ runs' = [runs EXCEPT ![k] = position_]
    /\ appState' = [appState EXCEPT !.isRunning = FALSE]
    /\ button' = RunButton(FALSE)
    /\ UNCHANGED <<processedData, backtestResults>>
    /\ StrategyFrame

\* loadHistoricalData() of initializeApp or of a cryptocurrency change
LoadHistoricalData ==
    /\ ~processedData
    /\ processedData' = TRUE
    /\ UNCHANGED <<appState, button, backtestResults, runs>>
    /\ StrategyFrame

\* the cryptocurrency selector changes: processedData = null
ChangeCryptocurrency ==
    /\ processedData
    /\ processedData' = FALSE
    /\ UNCHANGED <<appState, button, backtestResults, runs>>
    /\ StrategyFrame

\* the reset button: backtestResults = null
ResetConfig ==
    /\ backtestResults # 0
    /\ backtestResults' = 0
    /\ UNCHANGED <<appState, button, processedData, runs>>
    /\ StrategyFrame

InitUI == Constructed(DefaultConfig)

NextUI ==
    \/ Click
    \/ ResumeLoad
    \/ ResumeChart
    \/ LoadHistoricalData
    \/ ChangeCryptocurrency
    \/ ResetConfig

\* an awaited promise settles, and the continuation of the handler then runs
SpecUI == InitUI /\ [][NextUI]_vars /\ WF_vars(ResumeLoad) /\ WF_vars(ResumeChart)

\* C30: at most one invocation of runBacktest is past the isRunning check at
\* any time, isRunning and the disabled button say exactly that one is; a
\* click while a run is in flight returns without touching backtestResults
\* (or anything else of the page); and whenever isRunning is set it is
\* eventually reset to false with the button enabled again
C30_RunGuard ==
    /\ [](/\ Cardinality(InFlight) <= 1
          /\ appState.isRunning <=> InFlight # {}
          /\ button = RunButton(appState.isRunning))
    /\ [][(Len(runs') = Len(runs) + 1 /\ appState.isRunning)
             => /\ runs' = Append(runs, "returned")
                /\ UNCHANGED <<appState, button, processedData, backtestResults>>]_vars
    /\ (appState.isRunning ~> (~appState.isRunning /\ ~button.disabled))

\* a click was turned away while an earlier run was at the chart's await, and
\* that run has since failed after assigning backtestResults, with the flag
\* reset and the button enabled
C30_Witness ==
    /\ Len(runs) >= 2
    /\ runs[1] = "failed"
    /\ runs[2] = "returned"
    /\ backtestResults = 1
    /\ ~appState.isRunning
    /\ ~button.disabled

====
